---- MODULE Spec2Model ----
(***************************************************************************)
(* pingboard: the SQLite check store (db.py), the probe executor and the   *)
(* per-URL polling loops (checker.py) and the application lifespan that    *)
(* starts and stops them (api.py).                                         *)
(*                                                                         *)
(* Time is counted in whole seconds: checked_at is the text                *)
(* strftime('%Y-%m-%dT%H:%M:%SZ','now'), a fixed-width format whose text   *)
(* order is the order of the second it names, so a row's checked_at is the *)
(* value of `clock` at the insert and two inserts of one second tie.       *)
(***************************************************************************)
EXTENDS Integers, Sequences, FiniteSets, TLC

VARIABLES
    urls,         \* table urls: set of rows [id, url, label, interval_seconds]
    checks,       \* table checks: set of rows
    checks_seq,   \* AUTOINCREMENT high-water mark of checks.id
    clock,        \* the current second
    stop_event,   \* asyncio.Event shared by run_checker and the loops
    lifespan_pc,  \* position of api.lifespan
    checker_pc,   \* position of checker.run_checker
    tasks,        \* url_id -> the _check_loop task created for it
    returned      \* history: url -> the (args, id) of its first and latest add_url

vars == <<urls, checks, checks_seq, clock, stop_event, lifespan_pc, checker_pc,
          tasks, returned>>

\* Python's Optional / SQL's NULL: None is the empty set, a present value v is {v}
None == {}
Some(v) == {v}
The(o) == CHOOSE v \in o : TRUE

\* ---------------------------------------------------------------- bounds
MaxChecks == 4
MaxClock == 1
MaxKeep == 2
MaxN == 3

\* ------------------------------------------------------- program constants
DefaultInterval == 60

\* ----------------------------------------------------------------- inputs
Urls == {"a", "b"}

\* (url, label, interval_seconds) of direct add_url calls
RegisterArgs ==
    { [url |-> "a", label |-> Some("A"), interval_seconds |-> 1],
      [url |-> "a", label |-> None, interval_seconds |-> DefaultInterval],
      [url |-> "b", label |-> Some("B"), interval_seconds |-> 1] }

\* contents of urls.json: an optional top-level interval_seconds and the entries,
\* each with an optional label and an optional interval_seconds
Configs ==
    { [interval_seconds |-> None, urls |-> << >>],
      [interval_seconds |-> None,
       urls |-> << [url |-> "a", label |-> Some("A"), interval_seconds |-> Some(1)],
                   [url |-> "b", label |-> Some("B"), interval_seconds |-> Some(1)] >>],
      [interval_seconds |-> Some(1),
       urls |-> << [url |-> "b", label |-> Some("B"), interval_seconds |-> None],
                   [url |-> "a", label |-> None,
                    interval_seconds |-> Some(DefaultInterval)] >>],
      [interval_seconds |-> None,
       urls |-> << [url |-> "a", label |-> None, interval_seconds |-> None],
                   [url |-> "a", label |-> Some("A"), interval_seconds |-> Some(1)] >>] }

\* urls.json files with an entry the registry should not accept: one without the
\* "url" key between two good entries, and one whose interval is not positive
MalformedConfigs ==
    { [interval_seconds |-> None,
       urls |-> << [url |-> "a", label |-> Some("A"), interval_seconds |-> Some(1)],
                   [label |-> Some("B"), interval_seconds |-> Some(1)],
                   [url |-> "b", label |-> Some("B"), interval_seconds |-> Some(1)] >>],
      [interval_seconds |-> None,
       urls |-> << [url |-> "a", label |-> Some("A"), interval_seconds |-> Some(1)],
                   [url |-> "b", label |-> Some("B"), interval_seconds |-> Some(0)] >>] }

Min(a, b) == IF a <= b THEN a ELSE b
Max(S) == CHOOSE x \in S : \A y \in S : y <= x
Range(s) == {s[i] : i \in DOMAIN s}

\* ------------------------------------------------------------------ db.py
UrlByUrl(db_urls, url) == CHOOSE r \in db_urls : r.url = url

\* a plain INSERT on a table without the UNIQUE(url) constraint
InsertUrl(db_urls, row) == db_urls \cup {row}

\* INSERT OR REPLACE INTO urls: the conflicting row is deleted, the new one inserted
InsertOrReplaceUrl(db_urls, row) ==
    {r \in db_urls : r.url # row.url} \cup {row}

\* INSERT OR IGNORE INTO urls: the UNIQUE(url) conflict leaves the table alone
InsertOrIgnoreUrl(db_urls, row) ==
    IF \E r \in db_urls : r.url = row.url THEN db_urls ELSE db_urls \cup {row}

\* the rowid an AUTOINCREMENT insert gets (no urls row is ever deleted)
NextUrlId(db_urls) ==
    IF db_urls = {} THEN 1 ELSE Max({r.id : r \in db_urls}) + 1

\* cur.lastrowid of a fresh connection after the INSERT OR IGNORE: the new rowid,
\* or 0 when the insert was ignored
LastRowId(db_urls, after, row) ==
    IF row \in after /\ row \notin db_urls THEN row.id ELSE 0

add_url(db_urls, url, label, interval_seconds) ==
    LET row == [id |-> NextUrlId(db_urls), url |-> url, label |-> label,
                interval_seconds |-> interval_seconds]
        after == InsertOrIgnoreUrl(db_urls, row)
        lastrowid == LastRowId(db_urls, after, row)
    IN  [urls |-> after,
         ret |-> IF lastrowid # 0 THEN lastrowid ELSE UrlByUrl(after, url).id]

\* INSERT OR REPLACE INTO checks keyed by url_id: one row per target, overwritten
RecordCheckUpsert(db_checks, seq, url_id, status_code, response_time_ms, error, now) ==
    [checks |-> {r \in db_checks : r.url_id # url_id} \cup
                  {[id |-> seq + 1, url_id |-> url_id, status_code |-> status_code,
                    response_time_ms |-> response_time_ms, error |-> error,
                    checked_at |-> now]},
     seq |-> seq + 1,
     ret |-> seq + 1]

\* INSERT INTO checks: an AUTOINCREMENT id, checked_at from the column default
record_check(db_checks, seq, url_id, status_code, response_time_ms, error, now) ==
    [checks |-> db_checks \cup
                  {[id |-> seq + 1, url_id |-> url_id, status_code |-> status_code,
                    response_time_ms |-> response_time_ms, error |-> error,
                    checked_at |-> now]},
     seq |-> seq + 1,
     ret |-> seq + 1]

\* a query without its WHERE url_id = ?
ChecksOfAnyUrl(db_checks, url_id) == db_checks

\* WHERE url_id = ?
ChecksOf(db_checks, url_id) == {r \in db_checks : r.url_id = url_id}

\* ORDER BY checked_at DESC, id ASC
LatestBeforeIdAsc(r, q) ==
    \/ r.checked_at > q.checked_at
    \/ r.checked_at = q.checked_at /\ r.id < q.id

\* ORDER BY checked_at DESC, id DESC: r comes before q
LatestBefore(r, q) ==
    \/ r.checked_at > q.checked_at
    \/ r.checked_at = q.checked_at /\ r.id > q.id

RECURSIVE OrderBy(_)
OrderBy(S) ==
    IF S = {} THEN << >>
    ELSE LET first == CHOOSE r \in S : \A q \in S \ {r} : LatestBefore(r, q)
         IN  <<first>> \o OrderBy(S \ {first})

Limit(s, n) == SubSeq(s, 1, Min(n, Len(s)))

get_latest_checks(db_checks, url_id, n) ==
    Limit(OrderBy(ChecksOf(db_checks, url_id)), n)

\* ROW_NUMBER() OVER (PARTITION BY url_id ORDER BY checked_at DESC) ... rn <= keep:
\* the rows of one partition that some numbering consistent with the ORDER BY keeps.
\* The ORDER BY names checked_at only, so rows of one second may be numbered in
\* any order.
KeptOf(P, keep) ==
    { K \in SUBSET P :
        /\ Cardinality(K) = Min(keep, Cardinality(P))
        /\ \A r \in K, q \in P \ K : r.checked_at >= q.checked_at }

\* the same DELETE with the PARTITION BY left out: keep rows of the whole table
PruneGlobal(db_checks, keep) ==
    { [checks |-> K, ret |-> Cardinality(db_checks \ K)] : K \in KeptOf(db_checks, keep) }

\* the results prune_old_checks can have: the rows left and cur.rowcount
prune_old_checks(db_checks, keep) ==
    { [checks |-> K, ret |-> Cardinality(db_checks \ K)] :
        K \in { K \in SUBSET db_checks :
                  \A u \in {r.url_id : r \in db_checks} :
                      ChecksOf(K, u) \in KeptOf(ChecksOf(db_checks, u), keep) } }

\* SELECT * FROM urls ORDER BY id
RECURSIVE get_all_urls(_)
get_all_urls(db_urls) ==
    IF db_urls = {} THEN << >>
    ELSE LET first == CHOOSE r \in db_urls : \A q \in db_urls : r.id <= q.id
         IN  <<first>> \o get_all_urls(db_urls \ {first})

\* dict.get(key, default) on an optional field
Get(field, default) == IF field = None THEN default ELSE The(field)

\* the for loop of load_urls_from_json over entries[i..], starting from db_urls;
\* entry["url"] raises KeyError when the key is absent, which ends the loop with
\* the earlier add_url calls committed
RECURSIVE LoadEntries(_, _, _, _)
LoadEntries(db_urls, entries, i, default_interval) ==
    IF i > Len(entries) THEN [urls |-> db_urls, ids |-> << >>, raised |-> FALSE]
    ELSE IF "url" \notin DOMAIN entries[i]
    THEN [urls |-> db_urls, ids |-> << >>, raised |-> TRUE]
    ELSE LET entry == entries[i]
             one == add_url(db_urls, entry.url, entry.label,
                            Get(entry.interval_seconds, default_interval))
             rest == LoadEntries(one.urls, entries, i + 1, default_interval)
         IN  [urls |-> rest.urls, ids |-> <<one.ret>> \o rest.ids,
              raised |-> rest.raised]

load_urls_from_json(db_urls, data) ==
    LoadEntries(db_urls, data.urls, 1, Get(data.interval_seconds, DefaultInterval))

\* ------------------------------------------------------------- checker.py
\* what `await client.get(url, follow_redirects=True)` can do
ClientGet ==
    { [kind |-> "response", status_code |-> 200, elapsed_ms |-> 5, detail |-> ""],
      [kind |-> "TimeoutException", status_code |-> 0, elapsed_ms |-> 0, detail |-> ""],
      [kind |-> "ConnectError", status_code |-> 0, elapsed_ms |-> 0,
       detail |-> "refused"],
      [kind |-> "HTTPError", status_code |-> 0, elapsed_ms |-> 0,
       detail |-> "protocol error"] }

\* status codes on both sides of each edge of 200 <= status_code < 400
StatusCodes == {199, 200, 399, 400}

ProbeGets ==
    { [kind |-> "response", status_code |-> sc, elapsed_ms |-> 5, detail |-> ""] :
          sc \in StatusCodes }
    \cup {get \in ClientGet : get.kind # "response"}

\* a urls.json with one target
ProbeConfigs ==
    { [interval_seconds |-> Some(1),
       urls |-> << [url |-> "a", label |-> None, interval_seconds |-> None] >>] }

\* check_url with `except httpx.HTTPError` placed first: it also catches the
\* TimeoutException and the ConnectError, which are subclasses of it
check_url_http_error_first(get) ==
    IF get.kind = "response"
    THEN [status_code |-> Some(get.status_code),
          ok |-> (200 <= get.status_code /\ get.status_code < 400),
          latency_ms |-> Some(get.elapsed_ms), error |-> None]
    ELSE [status_code |-> None, ok |-> FALSE, latency_ms |-> None,
          error |-> Some(get.detail)]

check_url(get) ==
    CASE get.kind = "response" ->
            [status_code |-> Some(get.status_code),
             ok |-> (200 <= get.status_code /\ get.status_code < 400),
             latency_ms |-> Some(get.elapsed_ms), error |-> None]
      [] get.kind = "TimeoutException" ->
            [status_code |-> None, ok |-> FALSE, latency_ms |-> None,
             error |-> Some("timeout")]
      [] get.kind = "ConnectError" ->
            [status_code |-> None, ok |-> FALSE, latency_ms |-> None,
             error |-> Some("connect_error: " \o get.detail)]
      [] OTHER ->
            [status_code |-> None, ok |-> FALSE, latency_ms |-> None,
             error |-> Some(get.detail)]

\* the results the tests record directly: record_check(id, status_code=200,
\* response_time_ms=...)
DirectResults ==
    { [status_code |-> Some(200), latency_ms |-> Some(5), error |-> None] }

\* ------------------------------------------------------------------ api.py
\* the n of db.get_latest_checks(row["id"], n=20)
StatusN == 20

\* a success range that takes 400 in: 200 <= c["status_code"] <= 400
StatusOkThrough400(status_code) ==
    /\ status_code # None
    /\ 200 <= The(status_code)
    /\ The(status_code) <= 400

\* `c["status_code"] is not None and 200 <= c["status_code"] < 400`
StatusOk(status_code) ==
    /\ status_code # None
    /\ 200 <= The(status_code)
    /\ The(status_code) < 400

\* one check as GET /status shows it
StatusCheck(c) ==
    [status_code |-> c.status_code, latency_ms |-> c.response_time_ms,
     ok |-> StatusOk(c.status_code), checked_at |-> c.checked_at]

\* GET /status: one entry per urls row, in id order; `latest` stays None unless
\* the target has checks
status(db_urls, db_checks) ==
    LET url_rows == get_all_urls(db_urls)
    IN  [i \in DOMAIN url_rows |->
            LET cs == get_latest_checks(db_checks, url_rows[i].id, StatusN)
            IN  [url |-> url_rows[i].url,
                 latest |-> IF cs # << >> THEN Some(StatusCheck(cs[1])) ELSE None,
                 checks |-> [j \in DOMAIN cs |-> StatusCheck(cs[j])]]]

\* ------------------------------------------------------------------ state
Init ==
    /\ urls = {}
    /\ checks = {}
    /\ checks_seq = 0
    /\ clock = 0
    /\ stop_event = FALSE
    /\ lifespan_pc = "init"
    /\ checker_pc = "none"
    /\ tasks = << >>
    /\ returned = [u \in Urls |-> << >>]

\* history of the add_url calls of one url: the first call and the latest one
Note(hist, label, interval_seconds, id) ==
    LET call == [label |-> label, interval_seconds |-> interval_seconds, id |-> id]
    IN  IF hist = << >> THEN <<call>> ELSE <<hist[1], call>>

RECURSIVE NoteAll(_, _, _, _, _)
NoteAll(hist, entries, ids, i, default_interval) ==
    IF i > Len(ids) THEN hist
    ELSE NoteAll([hist EXCEPT ![entries[i].url] =
                      Note(@, entries[i].label,
                           Get(entries[i].interval_seconds, default_interval), ids[i])],
                 entries, ids, i + 1, default_interval)

sched_vars == <<stop_event, lifespan_pc, checker_pc, tasks>>

\* ---------------------------------------------- the store, called directly
Register(a) ==
    LET r == add_url(urls, a.url, a.label, a.interval_seconds)
    IN  /\ urls' = r.urls
        /\ returned' = [returned EXCEPT ![a.url] =
                            Note(@, a.label, a.interval_seconds, r.ret)]
        /\ UNCHANGED <<checks, checks_seq, clock, sched_vars>>

LoadUrls(data) ==
    LET r == load_urls_from_json(urls, data)
    IN  /\ urls' = r.urls
        /\ returned' = NoteAll(returned, data.urls, r.ids, 1,
                               Get(data.interval_seconds, DefaultInterval))
        /\ UNCHANGED <<checks, checks_seq, clock, sched_vars>>

RecordCheck(url_id, result) ==
    /\ checks_seq < MaxChecks
    /\ url_id \in {r.id : r \in urls}
    /\ LET r == record_check(checks, checks_seq, url_id, result.status_code,
                             result.latency_ms, result.error, clock)
       IN  /\ checks' = r.checks
           /\ checks_seq' = r.seq
    /\ UNCHANGED <<urls, clock, returned, sched_vars>>

Prune(keep) ==
    /\ \E r \in prune_old_checks(checks, keep) : checks' = r.checks
    /\ UNCHANGED <<urls, checks_seq, clock, returned, sched_vars>>

Tick ==
    /\ clock < MaxClock
    /\ clock' = clock + 1
    /\ UNCHANGED <<urls, checks, checks_seq, returned, sched_vars>>

\* ------------------------------------------------------ api.py lifespan
\* init_db(); stop_event = asyncio.Event(); create_task(run_checker(stop_event));
\* yield
LifespanStartup ==
    /\ lifespan_pc = "init"
    /\ lifespan_pc' = "yielded"
    /\ stop_event' = FALSE
    /\ checker_pc' = "created"
    /\ UNCHANGED <<urls, checks, checks_seq, clock, tasks, returned>>

\* stop_event.set(), then `await task`
LifespanShutdown ==
    /\ lifespan_pc = "yielded"
    /\ stop_event' = TRUE
    /\ lifespan_pc' = "awaiting"
    /\ UNCHANGED <<urls, checks, checks_seq, clock, checker_pc, tasks, returned>>

\* `await task` returns once run_checker has finished, or re-raises what
\* run_checker raised
LifespanReturn ==
    /\ lifespan_pc = "awaiting"
    /\ checker_pc \in {"done", "raised"}
    /\ lifespan_pc' = IF checker_pc = "done" THEN "returned" ELSE "raised"
    /\ UNCHANGED <<urls, checks, checks_seq, clock, stop_event, checker_pc, tasks,
                   returned>>

\* ------------------------------------------------ checker.py run_checker
Finished(task) == task.pc \in {"returned", "cancelled", "raised"}

\* a loop task just made by asyncio.create_task
\* a loop task just made by asyncio.create_task; `result` is the loop's local
\* variable (unset until check_url first returns, gone with the frame when the
\* task finishes); `probes` counts the check_url calls the loop has made
NewTask ==
    [pc |-> "created", must_cancel |-> FALSE, deadline |-> 0, result |-> None,
     probes |-> 0]

\* a shutdown that only waits for the loops to see stop_event, without t.cancel()
CancelNone(ts) == ts

\* for t in tasks: t.cancel() -- a finished task ignores it, any other task gets
\* CancelledError thrown into it at its next step
CancelAll(ts) ==
    [id \in DOMAIN ts |->
        IF Finished(ts[id]) THEN ts[id] ELSE [ts[id] EXCEPT !.must_cancel = TRUE]]

\* run_checker without its `if not urls: return`: with no rows it creates no
\* task and still waits for stop_event
CheckerStartNoEarlyReturn(data) ==
    /\ checker_pc = "created"
    /\ LET r == load_urls_from_json(urls, data)
           rows == get_all_urls(r.urls)
           created == [id \in {rows[i].id : i \in DOMAIN rows} |-> NewTask]
       IN  /\ urls' = r.urls
           /\ returned' = NoteAll(returned, data.urls, r.ids, 1,
                                  Get(data.interval_seconds, DefaultInterval))
           /\ IF r.raised
              THEN /\ checker_pc' = "raised"
                   /\ tasks' = tasks
              ELSE IF stop_event
                   THEN /\ checker_pc' = "gather"
                        /\ tasks' = CancelAll(created)
                   ELSE /\ checker_pc' = "wait_stop"
                        /\ tasks' = created
    /\ UNCHANGED <<checks, checks_seq, clock, stop_event, lifespan_pc>>

\* run_checker up to its first suspension: load urls.json, read the urls table,
\* create one loop task per row, await stop_event.wait() (which does not suspend
\* when the event is already set)
CheckerStart(data) ==
    /\ checker_pc = "created"
    /\ LET r == load_urls_from_json(urls, data)
           rows == get_all_urls(r.urls)
           created == [id \in {rows[i].id : i \in DOMAIN rows} |-> NewTask]
       IN  /\ urls' = r.urls
           /\ returned' = NoteAll(returned, data.urls, r.ids, 1,
                                  Get(data.interval_seconds, DefaultInterval))
           /\ IF r.raised
              THEN /\ checker_pc' = "raised"
                   /\ tasks' = tasks
              ELSE IF rows = << >>
              THEN /\ checker_pc' = "done"
                   /\ tasks' = tasks
              ELSE IF stop_event
                   THEN /\ checker_pc' = "gather"
                        /\ tasks' = CancelAll(created)
                   ELSE /\ checker_pc' = "wait_stop"
                        /\ tasks' = created
    /\ UNCHANGED <<checks, checks_seq, clock, stop_event, lifespan_pc>>

\* stop_event.wait() returns; for t in tasks: t.cancel(); await gather(...)
CheckerCancel ==
    /\ checker_pc = "wait_stop"
    /\ stop_event
    /\ tasks' = CancelAll(tasks)
    /\ checker_pc' = "gather"
    /\ UNCHANGED <<urls, checks, checks_seq, clock, stop_event, lifespan_pc, returned>>

\* gather(*tasks, return_exceptions=True) returns when every task has finished
CheckerGathered ==
    /\ checker_pc = "gather"
    /\ \A id \in DOMAIN tasks : Finished(tasks[id])
    /\ checker_pc' = "done"
    /\ UNCHANGED <<urls, checks, checks_seq, clock, stop_event, lifespan_pc, tasks,
                   returned>>

\* ------------------------------------------------ checker.py _check_loop
\* `while True`: the loop never looks at stop_event before a probe
LoopHeadWhileTrue == "probing"

\* `while not stop_event.is_set()`: leave the loop, or start check_url
LoopHead == IF stop_event THEN "returned" ELSE "probing"

\* the task after the while condition was evaluated
AtLoopHead(task) ==
    IF LoopHead = "probing"
    THEN [task EXCEPT !.pc = "probing", !.probes = @ + 1]
    ELSE [task EXCEPT !.pc = LoopHead, !.result = None]

IntervalOf(id) == (CHOOSE r \in urls : r.id = id).interval_seconds

\* the first step of a loop task
LoopStart(t) ==
    /\ t \in DOMAIN tasks
    /\ tasks[t].pc = "created"
    /\ ~tasks[t].must_cancel
    /\ tasks' = [tasks EXCEPT ![t] = AtLoopHead(@)]
    /\ UNCHANGED <<urls, checks, checks_seq, clock, stop_event, lifespan_pc,
                   checker_pc, returned>>

\* client.get finishes as `get`; check_url returns; db.record_check runs in the
\* same step (it is a plain call) and either commits the row, after which the loop
\* suspends in wait_for(stop_event.wait(), timeout=interval), or raises out of the
\* loop, which has no handler for it
ProbeDone(t, get, store_ok) ==
    /\ t \in DOMAIN tasks
    /\ tasks[t].pc = "probing"
    /\ ~tasks[t].must_cancel
    /\ IF store_ok
       THEN /\ checks_seq < MaxChecks
            /\ LET result == check_url(get)
                   r == record_check(checks, checks_seq, t, result.status_code,
                                     result.latency_ms, result.error, clock)
               IN  /\ checks' = r.checks
                   /\ checks_seq' = r.seq
            /\ tasks' = [tasks EXCEPT ![t].pc = "waiting",
                                      ![t].deadline = clock + IntervalOf(t),
                                      ![t].result = Some(check_url(get))]
       ELSE /\ tasks' = [tasks EXCEPT ![t].pc = "raised", ![t].result = None]
            /\ UNCHANGED <<checks, checks_seq>>
    /\ UNCHANGED <<urls, clock, stop_event, lifespan_pc, checker_pc, returned>>

\* stop_event.wait() returns inside wait_for; the while condition ends the loop
WaitStop(t) ==
    /\ t \in DOMAIN tasks
    /\ tasks[t].pc = "waiting"
    /\ ~tasks[t].must_cancel
    /\ stop_event
    /\ tasks' = [tasks EXCEPT ![t].pc = "returned", ![t].result = None]
    /\ UNCHANGED <<urls, checks, checks_seq, clock, stop_event, lifespan_pc,
                   checker_pc, returned>>

\* wait_for(stop_event.wait(), timeout=0): the wait expires without waiting
WaitTimeoutAtOnce(t) ==
    /\ t \in DOMAIN tasks
    /\ tasks[t].pc = "waiting"
    /\ ~tasks[t].must_cancel
    /\ tasks' = [tasks EXCEPT ![t] = AtLoopHead(@)]
    /\ UNCHANGED <<urls, checks, checks_seq, clock, stop_event, lifespan_pc,
                   checker_pc, returned>>

\* wait_for raises asyncio.TimeoutError after `interval` seconds; `pass`; loop again
WaitTimeout(t) ==
    /\ t \in DOMAIN tasks
    /\ tasks[t].pc = "waiting"
    /\ ~tasks[t].must_cancel
    /\ clock >= tasks[t].deadline
    /\ tasks' = [tasks EXCEPT ![t] = AtLoopHead(@)]
    /\ UNCHANGED <<urls, checks, checks_seq, clock, stop_event, lifespan_pc,
                   checker_pc, returned>>

\* CancelledError is thrown into the task where it is suspended (or before its
\* first step); nothing in the loop catches it. A task cancelled inside wait_for
\* after the event was set ends as cancelled or as returned, depending on the
\* asyncio version.
TaskCancelled(t) ==
    /\ t \in DOMAIN tasks
    /\ tasks[t].must_cancel
    /\ ~Finished(tasks[t])
    /\ \E end \in (IF tasks[t].pc = "waiting" THEN {"cancelled", "returned"}
                   ELSE {"cancelled"}) :
          tasks' = [tasks EXCEPT ![t].pc = end, ![t].must_cancel = FALSE,
                                 ![t].result = None]
    /\ UNCHANGED <<urls, checks, checks_seq, clock, stop_event, lifespan_pc,
                   checker_pc, returned>>

TaskIds == 1..Cardinality(Urls)

\* one step of the application started with a urls.json in `configs`, with
\* client.get behaving as one of `gets`
SchedStep(configs, gets) ==
    \/ LifespanStartup
    \/ LifespanShutdown
    \/ LifespanReturn
    \/ \E data \in configs : CheckerStart(data)
    \/ CheckerCancel
    \/ CheckerGathered
    \/ \E t \in TaskIds : LoopStart(t)
    \/ \E t \in TaskIds, get \in gets, store_ok \in BOOLEAN : ProbeDone(t, get, store_ok)
    \/ \E t \in TaskIds : WaitStop(t)
    \/ \E t \in TaskIds : WaitTimeout(t)
    \/ \E t \in TaskIds : TaskCancelled(t)
    \/ Tick

SchedNext == SchedStep(Configs, ClientGet)

\* the running application: the lifespan, run_checker and its loops
SchedSpec == Init /\ [][SchedNext]_vars

\* the event loop runs every task that is ready: run_checker, a loop whose wake-up
\* (first step, stop_event, CancelledError) is due, and the lifespan awaiting it.
\* Nothing is assumed about a probe ever finishing or an interval ever elapsing.
FairSchedSpec ==
    /\ SchedSpec
    /\ WF_vars(\E data \in Configs : CheckerStart(data))
    /\ WF_vars(CheckerCancel)
    /\ WF_vars(CheckerGathered)
    /\ WF_vars(LifespanReturn)
    /\ \A t \in TaskIds :
          /\ WF_vars(LoopStart(t))
          /\ WF_vars(WaitStop(t))
          /\ WF_vars(TaskCancelled(t))

\* the application watching one target whose responses cover both edges of the
\* success range
ProbeNext == SchedStep(ProbeConfigs, ProbeGets)

ProbeSpec == Init /\ [][ProbeNext]_vars

\* the application started with any urls.json, well-formed or not
StartupNext == SchedStep(Configs \cup MalformedConfigs, ClientGet)

StartupSpec == Init /\ [][StartupNext]_vars

\* the store as its callers outside the scheduler use it (the tests, the API)
Next ==
    \/ \E a \in RegisterArgs : Register(a)
    \/ \E data \in Configs : LoadUrls(data)
    \/ \E id \in 1..Cardinality(Urls), result \in DirectResults : RecordCheck(id, result)
    \/ \E keep \in 0..MaxKeep : Prune(keep)
    \/ Tick

Spec == Init /\ [][Next]_vars

\* ================================================================== claims
UrlIds == {r.id : r \in urls}
Keeps == 0..MaxKeep

RECURSIVE SumExcess(_, _, _)
SumExcess(db_checks, ids, K) ==
    IF ids = {} THEN 0
    ELSE LET u == CHOOSE i \in ids : TRUE
             k == Cardinality(ChecksOf(db_checks, u))
         IN  (IF k > K THEN k - K ELSE 0) + SumExcess(db_checks, ids \ {u}, K)

\* C1: whatever the targets hold, prune(keep=K) leaves target i with exactly
\* min(k_i, K) of its k_i rows, for every target on its own, and returns the
\* number of rows deleted, the sum over the targets of max(0, k_i - K).
C1_PrunePerTarget ==
    \A K \in Keeps :
        /\ prune_old_checks(checks, K) # {}
        /\ \A r \in prune_old_checks(checks, K) :
              /\ r.checks \subseteq checks
              /\ \A u \in UrlIds :
                    Cardinality(ChecksOf(r.checks, u))
                        = Min(Cardinality(ChecksOf(checks, u)), K)
              /\ r.ret = SumExcess(checks, UrlIds, K)

\* a prune has deleted rows of a store in which two targets still have rows
C1_Witness ==
    /\ Cardinality(checks) < checks_seq
    /\ \E u, v \in UrlIds :
          /\ u # v
          /\ Cardinality(ChecksOf(checks, u)) = 1
          /\ Cardinality(ChecksOf(checks, v)) = 2

\* C2: the rows of a target left by prune(keep) are exactly the rows
\* latest(target, keep) returned just before it, ties on checked_at included.
C2_PruneKeepsLatest ==
    \A K \in Keeps :
        \A r \in prune_old_checks(checks, K) :
            \A u \in UrlIds :
                ChecksOf(r.checks, u) = Range(get_latest_checks(checks, u, K))

Newest(db_checks, u) ==
    CHOOSE r \in ChecksOf(db_checks, u) : \A q \in ChecksOf(db_checks, u) : q.id <= r.id

\* C3: a prune(keep) with keep >= 1, interleaved in any way with record calls,
\* never deletes the most recently inserted row of a target.
C3_NewestSurvivesPrune ==
    [][\A K \in 1..MaxKeep :
          Prune(K) =>
              \A u \in UrlIds :
                  ChecksOf(checks, u) # {} => Newest(checks, u) \in checks']_vars

LatestArgs == UrlIds \X (0..MaxN)

\* C4, as stated: latest(id, n) has non-increasing checked_at, and of two results
\* of one checked_at the one inserted later never comes before the one inserted
\* earlier.
C4_LaterNeverBeforeEarlier ==
    \A a \in LatestArgs :
        LET s == get_latest_checks(checks, a[1], a[2])
        IN  \A i, j \in DOMAIN s :
                i < j =>
                    /\ s[i].checked_at >= s[j].checked_at
                    /\ s[i].checked_at = s[j].checked_at => ~(s[i].id > s[j].id)

\* C4, amended: latest(id, n) has non-increasing checked_at, and of two results
\* of one checked_at the one inserted later never comes after the one inserted
\* earlier (newest first).
C4_LatestNewestFirst ==
    \A a \in LatestArgs :
        LET s == get_latest_checks(checks, a[1], a[2])
        IN  /\ Range(s) \subseteq ChecksOf(checks, a[1])
            /\ \A i, j \in DOMAIN s :
                  i < j =>
                      /\ s[i].checked_at >= s[j].checked_at
                      /\ s[i].checked_at = s[j].checked_at => s[i].id > s[j].id

\* a target holds two rows of one second and a row of another second
C4_Witness ==
    \E u \in UrlIds :
        \E r, q, p \in ChecksOf(checks, u) :
            /\ r.id # q.id
            /\ r.checked_at = q.checked_at
            /\ p.checked_at # r.checked_at

RowsOf(url) == {r \in urls : r.url = url}

\* C5: every add_url call of one url returns the same id, the id of the one row
\* the table holds for that url.
C5_RegisterIdempotent ==
    \A u \in Urls :
        /\ Cardinality(RowsOf(u)) <= 1
        /\ \A i \in DOMAIN returned[u] :
              /\ returned[u][i].id = returned[u][1].id
              /\ \E r \in RowsOf(u) : r.id = returned[u][i].id

\* a url has been registered twice or more, next to another url
C5_Witness ==
    \E u, v \in Urls :
        /\ u # v
        /\ Len(returned[u]) = 2
        /\ Len(returned[v]) >= 1

RegisterStep ==
    \/ \E a \in RegisterArgs : Register(a)
    \/ \E data \in Configs : LoadUrls(data)

\* C6: the row of a url keeps the id, label and interval of its first
\* registration, and a registration (direct or by loading the configuration)
\* changes no existing Target and no CheckResult.
C6_FirstRegistrationWins ==
    /\ [](\A u \in Urls :
             returned[u] # << >> =>
                 \A r \in RowsOf(u) :
                     /\ r.id = returned[u][1].id
                     /\ r.label = returned[u][1].label
                     /\ r.interval_seconds = returned[u][1].interval_seconds)
    /\ [][RegisterStep =>
             /\ \A r \in urls : r \in urls'
             /\ checks' = checks
             /\ checks_seq' = checks_seq]_vars

\* a url with recorded checks has been registered again with another label and
\* another interval, next to another registered url
C6_Witness ==
    \E u, v \in Urls :
        /\ u # v
        /\ Len(returned[u]) = 2
        /\ returned[u][2].label # returned[u][1].label
        /\ returned[u][2].interval_seconds # returned[u][1].interval_seconds
        /\ returned[v] # << >>
        /\ \E r \in RowsOf(u) : ChecksOf(checks, r.id) # {}

AllStopped == \A t \in DOMAIN tasks : Finished(tasks[t])

\* C7: once stop is signalled, in whatever state the N loops are (not yet run, a
\* probe in flight, a store write failed), every loop reaches Stopped and the
\* stop call returns; and the scheduler and the stop call never finish while
\* some loop has not stopped.
C7_ShutdownCompletes ==
    /\ stop_event ~> (lifespan_pc = "returned" /\ checker_pc = "done" /\ AllStopped)
    /\ [](checker_pc = "done" \/ lifespan_pc = "returned" => AllStopped)

\* the stop call has returned for two targets with no probe completed, one loop
\* cancelled and one ended by a failed store write
C7_Witness ==
    /\ lifespan_pc = "returned"
    /\ checks = {}
    /\ \E t, u \in DOMAIN tasks :
          /\ tasks[t].pc = "cancelled"
          /\ tasks[u].pc = "raised"

\* C8: a probe in flight when stop has been signalled is never abandoned: the loop
\* leaves Probing only with the probe completed and handed to the store (its row
\* appended, or the write refused by the store).
C8_ProbeNeverAbandoned ==
    [][\A t \in DOMAIN tasks :
          stop_event /\ tasks[t].pc = "probing" /\ tasks'[t].pc # "probing" =>
              \/ \E r \in checks' \ checks : r.url_id = t
              \/ tasks'[t].pc = "raised"]_vars

\* C9: a store write that fails while stop is not signalled leaves the loop
\* running: it waits for its next tick, and every other loop stays as it was.
C9_StoreFailureKeepsLoop ==
    [][\A t \in TaskIds, get \in ClientGet :
          ProbeDone(t, get, FALSE) /\ ~stop_event =>
              /\ tasks'[t].pc = "waiting"
              /\ \A u \in DOMAIN tasks \ {t} : tasks'[u] = tasks[u]]_vars

\* target a is slow or failing: its probe is in flight, or a result of it has no
\* status code
Failing(a) ==
    \/ tasks[a].pc = "probing"
    \/ \E r \in ChecksOf(checks, a) : r.status_code = None

\* C10: while stop is not signalled and a target is slow or failing, the loop of
\* every other target is alive, with its probe, record or wait step to come, so
\* that it keeps recording results.
C10_OtherLoopsStayAlive ==
    \A a, b \in DOMAIN tasks :
        a # b /\ ~stop_event /\ Failing(a) => ~Finished(tasks[b])

\* C11: a registered target with no recorded checks has an empty latest(id, n) for
\* every n, and its /status entry has latest = null and checks = [].
NoChecksYet(id) == \A c \in checks : c.url_id # id

C11_EmptyHistory ==
    \A r \in urls :
        NoChecksYet(r.id) =>
            /\ \A n \in (0..MaxN) \cup {StatusN} :
                   get_latest_checks(checks, r.id, n) = << >>
            /\ LET report == status(urls, checks)
               IN  /\ \E i \in DOMAIN report : report[i].url = r.url
                   /\ \A i \in DOMAIN report :
                          report[i].url = r.url =>
                              /\ report[i].latest = None
                              /\ report[i].checks = << >>

C11_Witness ==
    /\ \E r \in urls : NoChecksYet(r.id)
    /\ \E r \in urls : ~NoChecksYet(r.id)

\* C12: a check's ok is true exactly when its status_code is present and within
\* 200..399; the ok check_url returned for a probe and the ok /status reports for
\* the row recorded from it are the same.
UrlOf(id) == (CHOOSE r \in urls : r.id = id).url

Success(status_code) == status_code # None /\ The(status_code) \in 200..399

C12_SuccessPredicate ==
    LET report == status(urls, checks)
    IN  /\ \A i \in DOMAIN report : \A j \in DOMAIN report[i].checks :
               report[i].checks[j].ok <=> Success(report[i].checks[j].status_code)
        /\ \A t \in DOMAIN tasks :
               tasks[t].result # None =>
                   LET result == The(tasks[t].result)
                   IN  /\ result.ok <=> Success(result.status_code)
                       /\ \A i \in DOMAIN report :
                              report[i].url = UrlOf(t) =>
                                  /\ report[i].latest # None
                                  /\ The(report[i].latest).status_code = result.status_code
                                  /\ The(report[i].latest).ok = result.ok

C12_Witness ==
    /\ \E t \in DOMAIN tasks :
          /\ tasks[t].result # None
          /\ The(tasks[t].result).status_code = Some(400)
    /\ \E c \in checks : c.status_code = Some(399)
    /\ \E c \in checks : c.status_code = Some(400)

\* C13: a successful record appends exactly one row for its target and leaves
\* every earlier row and every urls row as it was; no step changes a field of a
\* stored row; a row leaves the store only in a prune step.
C13_AppendOnly ==
    [][ /\ \A id \in TaskIds, result \in DirectResults :
               RecordCheck(id, result) =>
                   /\ checks \subseteq checks'
                   /\ Cardinality(checks' \ checks) = 1
                   /\ \A c \in checks' \ checks : c.url_id = id
                   /\ urls' = urls
        /\ \A c \in checks, d \in checks' : c.id = d.id => c = d
        /\ (\E c \in checks : c \notin checks') =>
               \E keep \in 0..MaxKeep : Prune(keep) ]_vars

C13_Witness ==
    /\ \E c, d \in checks : c.url_id = d.url_id /\ c.id # d.id
    /\ \E c, d \in checks : c.url_id # d.url_id
    /\ Cardinality(checks) < checks_seq

\* C14: when run_checker loads a configuration with a malformed entry (no url, or
\* a non-positive interval) among valid ones, every valid entry, before or after
\* it, is registered and (stop not being set) has a loop task, and the malformed
\* entry registers nothing.
HasUrl(entry) == "url" \in DOMAIN entry

ValidEntry(entry, data) ==
    /\ HasUrl(entry)
    /\ Get(entry.interval_seconds, Get(data.interval_seconds, DefaultInterval)) > 0

C14_MalformedEntrySkipped ==
    [][ \A data \in Configs \cup MalformedConfigs :
            CheckerStart(data) =>
                \A i \in DOMAIN data.urls :
                    LET entry == data.urls[i]
                    IN  /\ ValidEntry(entry, data) =>
                               \E r \in urls' :
                                   /\ r.url = entry.url
                                   /\ ~stop_event => r.id \in DOMAIN tasks'
                        /\ (HasUrl(entry) /\ ~ValidEntry(entry, data)) =>
                               \/ \E j \in DOMAIN data.urls :
                                      /\ ValidEntry(data.urls[j], data)
                                      /\ data.urls[j].url = entry.url
                               \/ \A r \in urls' : r.url # entry.url ]_vars

\* C15: for each outcome class of the HTTP call (a response, a timeout, a
\* connection failure, another transport error) check_url hands the loop a result
\* in which status_code is present iff latency_ms is present iff error is absent;
\* a timeout gives error "timeout", a connection failure an error that starts
\* with "connect_error: ".
Details == {get.detail : get \in ClientGet}

C15_OutcomeIsValue ==
    [][ \A t \in TaskIds, get \in ClientGet :
            ProbeDone(t, get, TRUE) =>
                /\ tasks'[t].result # None
                /\ LET result == The(tasks'[t].result)
                   IN  /\ (result.status_code # None) <=> (result.latency_ms # None)
                       /\ (result.status_code # None) <=> (result.error = None)
                       /\ (get.kind = "response") <=> (result.status_code # None)
                       /\ get.kind = "TimeoutException" =>
                              result.error = Some("timeout")
                       /\ get.kind = "ConnectError" =>
                              \E detail \in Details :
                                  result.error = Some("connect_error: " \o detail) ]_vars

C15_Witness ==
    /\ \E c \in checks : c.error = Some("timeout")
    /\ \E c \in checks : c.error = Some("connect_error: refused")
    /\ \E c \in checks : c.error = Some("protocol error")
    /\ \E c \in checks : c.status_code # None /\ c.error = None

\* C16: once stop_event is set no loop starts a probe: no step taken with stop set
\* moves a loop into check_url or raises its count of started probes, whether the
\* loop was waiting, had just recorded, or had not run yet.
C16_NoProbeAfterStop ==
    [][ stop_event =>
            \A t \in DOMAIN tasks' :
                /\ tasks'[t].pc = "probing" =>
                       (t \in DOMAIN tasks /\ tasks[t].pc = "probing")
                /\ tasks'[t].probes =
                       (IF t \in DOMAIN tasks THEN tasks[t].probes ELSE 0) ]_vars

C16_Witness ==
    /\ stop_event
    /\ \E t \in DOMAIN tasks :
          /\ tasks[t].pc = "returned"
          /\ tasks[t].probes >= 1
          /\ clock >= tasks[t].deadline
    /\ \E t \in DOMAIN tasks : tasks[t].pc = "returned" /\ tasks[t].probes = 0

\* C17: whenever a loop is not inside a probe or its recording (waiting, or
\* finished for any reason), the number of checks appended for its target equals
\* the number of probes it started.
C17_OneResultPerProbe ==
    \A t \in DOMAIN tasks :
        tasks[t].pc # "probing" =>
            Cardinality({c \in checks : c.url_id = t}) = tasks[t].probes

\* C18: a scheduler that finds the registry empty starts no loop, makes no probe,
\* appends no check and is idle at once (run_checker has returned); a stop
\* requested before or after that is honoured: the stop call returns.
C18_EmptyRegistryIdle ==
    /\ []((checker_pc \notin {"none", "created"} /\ urls = {}) =>
              (checker_pc = "done" /\ tasks = << >> /\ checks = {}))
    /\ ((stop_event /\ urls = {} /\ checker_pc \notin {"none", "created"})
            ~> (lifespan_pc = "returned"))

C18_Witness ==
    /\ urls = {}
    /\ checker_pc = "done"
    /\ lifespan_pc = "returned"
    /\ clock = MaxClock

\* C19: one target (one url) has at most one live loop, hence at most one probe in
\* flight at any time; the check inserted last is the one of the probe that completed last, and the
\* checked_at values of its checks never decrease in insertion (id) order.
ChecksOfUrl(url) == {c \in checks : \E r \in urls : r.id = c.url_id /\ r.url = url}

C19_PerTargetOrder ==
    /\ \A t1, t2 \in DOMAIN tasks :
           (UrlOf(t1) = UrlOf(t2) /\ ~Finished(tasks[t1]) /\ ~Finished(tasks[t2]))
               => t1 = t2
    /\ \A u \in Urls : \A c, d \in ChecksOfUrl(u) :
           c.id < d.id => c.checked_at <= d.checked_at
    /\ \A t \in DOMAIN tasks :
           tasks[t].result # None =>
               \E c \in ChecksOfUrl(UrlOf(t)) :
                   /\ \A d \in ChecksOfUrl(UrlOf(t)) : d.id <= c.id
                   /\ c.status_code = The(tasks[t].result).status_code
                   /\ c.response_time_ms = The(tasks[t].result).latency_ms
                   /\ c.error = The(tasks[t].result).error

C19_Witness ==
    \E t \in DOMAIN tasks :
        /\ tasks[t].pc = "waiting"
        /\ tasks[t].result # None
        /\ \E c, d \in ChecksOfUrl(UrlOf(t)) :
               /\ c.id < d.id
               /\ c.checked_at < d.checked_at
               /\ c.status_code # d.status_code

\* C20: a loop's first probe starts from the loop's first step, with no wait
\* before it; each later probe starts from a wait that began when the previous
\* check was recorded and ended, stop not being set, only after the target's full
\* interval; so a probe never follows a probe back to back.
LastCheckedAt(t) ==
    (CHOOSE c \in checks :
        c.url_id = t /\ \A d \in checks : d.url_id = t => d.id <= c.id).checked_at

C20_TickOrdering ==
    [][ \A t \in DOMAIN tasks :
            (tasks'[t].pc = "probing" /\ tasks[t].pc # "probing") =>
                \/ /\ tasks[t].pc = "created"
                   /\ tasks'[t].probes = 1
                \/ /\ tasks[t].pc = "waiting"
                   /\ tasks'[t].probes > 1
                   /\ ~stop_event
                   /\ clock >= LastCheckedAt(t) + IntervalOf(t) ]_vars

C20_Witness ==
    \E t \in DOMAIN tasks :
        /\ tasks[t].pc = "probing"
        /\ tasks[t].probes = 2
        /\ clock = LastCheckedAt(t) + IntervalOf(t)

====
